---- MODULE Spec2Model ----
(***************************************************************************)
(* Model of script.py: salary statistics per programming language from the *)
(* HeadHunter and SuperJob vacancy APIs.                                    *)
(*                                                                         *)
(* Encoding of Python values                                               *)
(*   None and False are the empty tuple; a present value v is <<v>>.        *)
(*   A salary estimate is a float in the code.  The model keeps its exact  *)
(*   decimal value as an integer number of TENTHS: x * 0.8 is 8x tenths,   *)
(*   x * 1.2 is 12x tenths, (b - a) / 2 is 5(b - a) tenths.                *)
(*   A dict is the sequence of its items in insertion order.               *)
(***************************************************************************)
EXTENDS Integers, Sequences, FiniteSets

VARIABLES
    pc,             \* control point of main()
    provider,       \* "hh" or "sj": the report being generated
    superjob_key,   \* the SUPERJOB_KEY environment variable (None when unset)
    area_text,      \* the place name passed to the area resolver
    areas_json,     \* the body of GET /areas held by the resolver
    area_id,        \* area_id of the running aggregator
    lang_idx,       \* position of the aggregator's for loop in languages
    vacancies_dict, \* the aggregator's dict `vacancies`
    server,         \* the provider's records matching the current query
    page,           \* the fetcher's `page`
    vacancies,      \* the fetcher's list `vacancies`
    requests,       \* the requests of the current fetch, in order: page, success
    vacancies_found,\* the list the fetcher returned to the aggregator
    output,         \* what has been printed
    error,          \* the exception raised inside main's try block
    sj_contacted,   \* whether any request went to api.superjob.ru
    salary_from,    \* argument of the estimator call
    salary_to,      \* argument of the estimator call
    est_currency,   \* currency of the vacancy built around the two bounds
    est_has_salary, \* whether the HeadHunter vacancy carries a salary object
    est_fn,         \* which estimator function was called ("" before the call)
    est_out         \* what it returned

vars == <<pc, provider, superjob_key, area_text, areas_json, area_id, lang_idx,
          vacancies_dict, server, page, vacancies, requests, vacancies_found,
          output, error, sj_contacted, salary_from, salary_to, est_currency,
          est_has_salary, est_fn, est_out>>

main_vars == <<pc, provider, superjob_key, area_text, areas_json, area_id,
               lang_idx, vacancies_dict, server, page, vacancies, requests,
               vacancies_found, output, error, sj_contacted>>

est_vars == <<salary_from, salary_to, est_currency, est_has_salary, est_fn, est_out>>

----------------------------------------------------------------------------
(* Bounds of the model *)

MaxSalary == 5
MaxNodes == 3
MaxId == 2
MaxTotal == 201
MaxVacancies == 2

----------------------------------------------------------------------------
(* Python values *)

None == <<>>

PyFalse == <<>>

Some(v) == <<v>>

\* x in (None, 0)
NoneOrZero(x) == x = None \/ x = <<0>>

\* int(x) for the fraction num / den, den > 0: truncation towards zero
int(num, den) == IF num >= 0 THEN num \div den ELSE -((-num) \div den)

RECURSIVE SumSeq(_)
SumSeq(s) == IF s = <<>> THEN 0 ELSE Head(s) + SumSeq(Tail(s))

----------------------------------------------------------------------------
(* Salary estimator *)

\* faulty variant: the arithmetic mean of the two bounds in the last branch
get_predict_salary_mean(from, to) ==
    IF NoneOrZero(from) /\ NoneOrZero(to) THEN None
    ELSE IF NoneOrZero(from) THEN Some(to[1] * 8)
    ELSE IF NoneOrZero(to) THEN Some(from[1] * 12)
    ELSE Some((to[1] + from[1]) * 5)

\* the result is None or <<tenths>>
get_predict_salary(from, to) ==
    IF NoneOrZero(from) /\ NoneOrZero(to) THEN None
    ELSE IF NoneOrZero(from) THEN Some(to[1] * 8)
    ELSE IF NoneOrZero(to) THEN Some(from[1] * 12)
    ELSE Some((to[1] - from[1]) * 5)

\* a HeadHunter vacancy is [salary |-> None] or
\* [salary |-> <<[from |-> .., to |-> .., currency |-> ..]>>]
predict_rub_salary_hh(vacancy) ==
    IF vacancy.salary = None \/ vacancy.salary[1].currency # "RUR"
    THEN None
    ELSE get_predict_salary(vacancy.salary[1].from, vacancy.salary[1].to)

\* a SuperJob vacancy is [currency |-> .., payment_from |-> .., payment_to |-> ..]
predict_rub_salary_sj(vacancy) ==
    IF vacancy.currency # "rub"
    THEN None
    ELSE get_predict_salary(vacancy.payment_from, vacancy.payment_to)

SalaryAmounts == (0..MaxSalary) \cup {1000, 2000}

SalaryBounds == {None} \cup {Some(n) : n \in SalaryAmounts}

Currencies == {"RUR", "USD", "rub", "usd"}

hh_vacancy(has_salary, from, to, currency) ==
    IF has_salary
    THEN [salary |-> Some([from |-> from, to |-> to, currency |-> currency])]
    ELSE [salary |-> None]

sj_vacancy(from, to, currency) ==
    [currency |-> currency, payment_from |-> from, payment_to |-> to]

----------------------------------------------------------------------------
(* Specification of the estimator calls: the arguments are drawn in the    *)
(* initial state, each action is one call.                                 *)

MainIdle ==
    /\ pc = "idle" /\ provider = "hh" /\ superjob_key = None
    /\ area_text = "Moskva" /\ areas_json = None /\ area_id = None
    /\ lang_idx = 1 /\ vacancies_dict = <<>> /\ server = <<>> /\ page = 0
    /\ vacancies = <<>> /\ requests = <<>> /\ vacancies_found = None
    /\ output = <<>> /\ error = None /\ sj_contacted = FALSE

EstIdle ==
    /\ salary_from = None /\ salary_to = None /\ est_currency = "RUR"
    /\ est_has_salary = FALSE /\ est_fn = "" /\ est_out = None

InitEst ==
    /\ MainIdle
    /\ salary_from \in SalaryBounds
    /\ salary_to \in SalaryBounds
    /\ est_currency \in Currencies
    /\ est_has_salary \in BOOLEAN
    /\ est_fn = ""
    /\ est_out = None

CallGetPredictSalary ==
    /\ est_fn = ""
    /\ est_fn' = "get_predict_salary"
    /\ est_out' = get_predict_salary(salary_from, salary_to)
    /\ UNCHANGED <<main_vars, salary_from, salary_to, est_currency, est_has_salary>>

CallPredictRubSalaryHH ==
    /\ est_fn = ""
    /\ est_fn' = "predict_rub_salary_hh"
    /\ est_out' = predict_rub_salary_hh(
                     hh_vacancy(est_has_salary, salary_from, salary_to, est_currency))
    /\ UNCHANGED <<main_vars, salary_from, salary_to, est_currency, est_has_salary>>

CallPredictRubSalarySJ ==
    /\ est_fn = ""
    /\ est_fn' = "predict_rub_salary_sj"
    /\ est_out' = predict_rub_salary_sj(
                     sj_vacancy(salary_from, salary_to, est_currency))
    /\ UNCHANGED <<main_vars, salary_from, salary_to, est_currency, est_has_salary>>

NextEst == CallGetPredictSalary \/ CallPredictRubSalaryHH \/ CallPredictRubSalarySJ

SpecEst == InitEst /\ [][NextEst]_vars

----------------------------------------------------------------------------
\* C1: for every pair of bounds, each absent or a non-negative integer,
\* get_predict_salary returns absent when both are absent or zero, upper * 0.8
\* when only lower is absent or zero, lower * 1.2 when only upper is absent or
\* zero, and (upper - lower) / 2 otherwise; (None, 1000) gives 800,
\* (1000, None) gives 1200 and (1000, 2000) gives 500.
C1_EstimatorTable ==
    est_fn = "get_predict_salary" =>
        /\ (salary_from \in {None, <<0>>} /\ salary_to \in {None, <<0>>})
              => est_out = None
        /\ (salary_from \in {None, <<0>>} /\ salary_to \notin {None, <<0>>})
              => (est_out # None /\ 10 * est_out[1] = 8 * 10 * salary_to[1])
        /\ (salary_from \notin {None, <<0>>} /\ salary_to \in {None, <<0>>})
              => (est_out # None /\ 10 * est_out[1] = 12 * 10 * salary_from[1])
        /\ (salary_from \notin {None, <<0>>} /\ salary_to \notin {None, <<0>>})
              => (est_out # None /\ 2 * est_out[1] = 10 * (salary_to[1] - salary_from[1]))
        /\ (salary_from = None /\ salary_to = <<1000>>) => est_out = <<8000>>
        /\ (salary_from = <<1000>> /\ salary_to = None) => est_out = <<12000>>
        /\ (salary_from = <<1000>> /\ salary_to = <<2000>>) => est_out = <<5000>>

C1_Witness ==
    /\ est_fn = "get_predict_salary"
    /\ salary_from = <<1000>> /\ salary_to = <<2000>>
    /\ est_out = <<5000>>

\* C2: whenever get_predict_salary, predict_rub_salary_hh or predict_rub_salary_sj
\* returns a non-absent estimate, the estimate is not 0, also when both bounds
\* are present, non-zero and equal.
C2_EstimateNeverZero ==
    (est_fn # "" /\ est_out # None) => est_out[1] # 0

----------------------------------------------------------------------------
(* HeadHunter area resolver.  The body of GET /areas is a forest; the model *)
(* keeps it as an arena: node i has name[i], id[i] and parent[i] (0 for a  *)
(* root), and area['areas'] lists the nodes whose parent is i, in order.   *)

AreaNames == {"Moskva", "Tver"}

ParentVectors(n) == {p \in [1..n -> 0..(n - 1)] : \A i \in 1..n : p[i] < i}

AreaTree(n, p, nm, d) == [n |-> n, parent |-> p, name |-> nm, id |-> d]

\* area['areas'] of node i; the top-level list of the response for i = 0
SubAreas(tree, i) ==
    SelectSeq([k \in 1..tree.n |-> k], LAMBDA j : tree.parent[j] = i)

RECURSIVE find_hh_area_recursive(_, _, _)
\* areas is a list of nodes of tree; the result is PyFalse or <<id>>
find_hh_area_recursive(tree, areas, text) ==
    IF areas = <<>> THEN PyFalse
    ELSE LET area == Head(areas)
             area_areas == SubAreas(tree, area)
         IN IF tree.name[area] = text THEN Some(tree.id[area])
            ELSE LET found == IF Len(area_areas) > 0
                              THEN find_hh_area_recursive(tree, area_areas, text)
                              ELSE PyFalse
                 IN IF found # PyFalse THEN found
                    ELSE find_hh_area_recursive(tree, Tail(areas), text)

\* `not area_id` for area_id False or an integer id
NotAreaId(found) == found = PyFalse \/ found = <<0>>

\* the outcome of get_hh_area_id once the request has succeeded
get_hh_area_id(tree, text) ==
    LET found == find_hh_area_recursive(tree, SubAreas(tree, 0), text)
    IN IF NotAreaId(found)
       THEN [raised |-> Some("Gorod ne naiden"), area_id |-> None]
       ELSE [raised |-> None, area_id |-> found]

\* get_hh_area_id on the response body `tree`, called from the HeadHunter
\* aggregator; line 85 of the aggregator never holds, since the resolver
\* returns truthy values only.
HHAreaOn(tree) ==
    /\ pc = "area" /\ provider = "hh"
    /\ LET r == get_hh_area_id(tree, area_text)
       IN /\ area_id' = r.area_id
          /\ error' = r.raised
          /\ pc' = IF r.raised = None THEN "loop" ELSE "except"
    /\ vacancies_dict' = <<>>
    /\ lang_idx' = 1
    /\ UNCHANGED <<provider, superjob_key, area_text, areas_json, server, page,
                   vacancies, requests, vacancies_found, output, sj_contacted, est_vars>>

\* GET /areas answers with a non-success status: raise_for_status raises
HHAreaRequestFails ==
    /\ pc = "area" /\ provider = "hh"
    /\ error' = Some("HTTPError")
    /\ pc' = "except"
    /\ vacancies_dict' = <<>>
    /\ UNCHANGED <<provider, superjob_key, area_text, areas_json, area_id, lang_idx,
                   server, page, vacancies, requests, vacancies_found, output,
                   sj_contacted, est_vars>>

(* Specification of the resolver alone: the response body and the name are *)
(* drawn in the initial state.                                             *)

InitArea ==
    /\ EstIdle
    /\ pc = "area" /\ provider = "hh" /\ superjob_key = None
    /\ area_text \in AreaNames
    /\ \E n \in 0..MaxNodes :
          \E p \in ParentVectors(n), nm \in [1..n -> AreaNames], d \in [1..n -> 0..MaxId] :
             areas_json = AreaTree(n, p, nm, d)
    /\ area_id = None
    /\ lang_idx = 1 /\ vacancies_dict = <<>> /\ server = <<>> /\ page = 0
    /\ vacancies = <<>> /\ requests = <<>> /\ vacancies_found = None
    /\ output = <<>> /\ error = None /\ sj_contacted = FALSE

ResolveHHArea == HHAreaOn(areas_json)

NextArea == ResolveHHArea \/ HHAreaRequestFails

SpecArea == InitArea /\ [][NextArea]_vars

RECURSIVE PreOrder(_, _)
\* the nodes below the list `areas`, parents before children, left to right
PreOrder(tree, areas) ==
    IF areas = <<>> THEN <<>>
    ELSE <<Head(areas)>> \o PreOrder(tree, SubAreas(tree, Head(areas)))
                         \o PreOrder(tree, Tail(areas))

MatchesInPreOrder(tree, text) ==
    SelectSeq(PreOrder(tree, SubAreas(tree, 0)), LAMBDA i : tree.name[i] = text)

\* C9: the resolver returns the id of the first node, in depth-first pre-order,
\* whose name equals the text, and fails with the not-found error if and only
\* if no node has that name, whatever the id and the depth of the matching node.
C9_FirstMatchOrNotFound ==
    (pc # "area" /\ error # Some("HTTPError")) =>
        LET matches == MatchesInPreOrder(areas_json, area_text)
        IN /\ (error = Some("Gorod ne naiden")) <=> (matches = <<>>)
           /\ matches # <<>> => area_id = Some(areas_json.id[Head(matches)])

----------------------------------------------------------------------------
(* Vacancy fetchers.  `server` is the list of records the provider holds   *)
(* for the query of the running fetch; it answers page p of size n with    *)
(* records p*n+1 .. (p+1)*n, and reports the page count (HeadHunter) or    *)
(* the record count (SuperJob).                                            *)

HHPerPage == 20

SJCount == 100

SJPageDivisor == 100

per_page(prov) == IF prov = "hh" THEN HHPerPage ELSE SJCount

Min(a, b) == IF a <= b THEN a ELSE b

\* response.json()['items'] / ['objects'] for the requested page
PageItems(srv, p, size) == SubSeq(srv, p * size + 1, Min((p + 1) * size, Len(srv)))

\* response.json()['pages'] of HeadHunter
HHServerPages(srv) == (Len(srv) + HHPerPage - 1) \div HHPerPage

\* faulty variant: the page count without the + 1
sj_pages_no_plus_one(total) == total \div SJPageDivisor

\* pages = response.json()['total'] // 100 + 1
sj_pages(total) == total \div SJPageDivisor + 1

\* one iteration of the fetcher's while loop whose request succeeds
Request ==
    /\ pc = "request"
    /\ LET items == PageItems(server, page, per_page(provider))
           pages == IF provider = "hh" THEN HHServerPages(server)
                                       ELSE sj_pages(Len(server))
       IN /\ requests' = Append(requests, [page |-> page, ok |-> TRUE])
          /\ vacancies' = vacancies \o items
          /\ page' = page + 1
          /\ IF page + 1 >= pages
             THEN /\ pc' = "stats"
                  /\ vacancies_found' = Some(vacancies \o items)
             ELSE /\ pc' = "request"
                  /\ vacancies_found' = vacancies_found
    /\ sj_contacted' = (sj_contacted \/ provider = "sj")
    /\ UNCHANGED <<provider, superjob_key, area_text, areas_json, area_id, lang_idx,
                   vacancies_dict, server, output, error, est_vars>>

\* faulty variant: a failed request ends the loop and the fetcher returns what it has
RequestFailsPartial ==
    /\ pc = "request"
    /\ requests' = Append(requests, [page |-> page, ok |-> FALSE])
    /\ sj_contacted' = (sj_contacted \/ provider = "sj")
    /\ pc' = "stats"
    /\ vacancies_found' = Some(vacancies)
    /\ UNCHANGED <<provider, superjob_key, area_text, areas_json, area_id, lang_idx,
                   vacancies_dict, server, page, vacancies, output, error, est_vars>>

\* the request answers with a non-success status: raise_for_status raises,
\* nothing catches it before main, and the fetcher's locals go with its frame
RequestFails ==
    /\ pc = "request"
    /\ requests' = Append(requests, [page |-> page, ok |-> FALSE])
    /\ sj_contacted' = (sj_contacted \/ provider = "sj")
    /\ error' = Some("HTTPError")
    /\ pc' = "except"
    /\ server' = <<>>
    /\ page' = 0
    /\ vacancies' = <<>>
    /\ UNCHANGED <<provider, superjob_key, area_text, areas_json, area_id, lang_idx,
                   vacancies_dict, vacancies_found, output, est_vars>>

(* Specification of one fetch: the provider and the number of records the  *)
(* server holds are drawn in the initial state; record i is the integer i. *)

InitFetch ==
    /\ EstIdle
    /\ pc = "request"
    /\ provider \in {"hh", "sj"}
    /\ superjob_key = Some("key")
    /\ area_text = "Moskva" /\ areas_json = None /\ area_id = Some(1)
    /\ lang_idx = 1 /\ vacancies_dict = <<>>
    /\ server \in {[i \in 1..total |-> i] : total \in 0..MaxTotal}
    /\ page = 0 /\ vacancies = <<>> /\ requests = <<>> /\ vacancies_found = None
    /\ output = <<>> /\ error = None /\ sj_contacted = FALSE

NextFetch == Request \/ RequestFails

SpecFetch == InitFetch /\ [][NextFetch]_vars

\* C4: when every page but the last comes back full, both fetchers return
\* exactly the records the server reports, each once and in server order, and
\* request the pages 0, 1, 2, ... in increasing order, none skipped and none
\* twice, for every total including 0 and the multiples of the page size.
C4_FetchReturnsAll ==
    /\ \A i \in 1..Len(requests) : requests[i].page = i - 1
    /\ pc = "stats" =>
          /\ vacancies_found = Some(server)
          /\ Len(requests) >= 1
          /\ Len(requests) * per_page(provider) >= Len(server)

C4_Witness ==
    /\ pc = "stats" /\ provider = "sj" /\ Len(server) = 2 * SJCount
    /\ vacancies_found = Some(server) /\ Len(requests) = 3

----------------------------------------------------------------------------
(* Aggregators, print_table and main *)

\* the first languages of main's list, which holds seven
Languages == <<"Java", "Python">>

predict_rub_salary(prov, vacancy) ==
    IF prov = "hh" THEN predict_rub_salary_hh(vacancy)
                   ELSE predict_rub_salary_sj(vacancy)

\* list(filter(lambda x: x is not None, (predict_rub_salary_xx(v) for v in found))),
\* each salary in tenths
Salaries(prov, found) ==
    LET estimates == [i \in 1..Len(found) |-> predict_rub_salary(prov, found[i])]
        present == SelectSeq(estimates, LAMBDA e : e # None)
    IN [i \in 1..Len(present) |-> present[i][1]]

\* faulty variant: the two counts stored under each other's key
language_stats_swapped(found, salaries) ==
    [vacancies_found |-> Len(salaries),
     vacancies_processed |-> Len(found),
     average_salary |-> int(SumSeq(salaries), 10 * Len(salaries))]

\* faulty variant: the sum of the salaries divided by the number of vacancies found
language_stats_mean_over_found(found, salaries) ==
    [vacancies_found |-> Len(found),
     vacancies_processed |-> Len(salaries),
     average_salary |-> int(SumSeq(salaries), 10 * Len(found))]

\* the dict literal of lines 93-95, for a non-empty list of salaries
language_stats(found, salaries) ==
    [vacancies_found |-> Len(found),
     vacancies_processed |-> Len(salaries),
     average_salary |-> int(SumSeq(salaries), 10 * Len(salaries))]

\* d[key] = value on a dict kept as the sequence of its items
DictSet(d, key, value) ==
    IF \E i \in 1..Len(d) : d[i].language = key
    THEN [i \in 1..Len(d) |->
            IF d[i].language = key THEN [language |-> key, stats |-> value] ELSE d[i]]
    ELSE Append(d, [language |-> key, stats |-> value])

HHVacancyKinds ==
    {hh_vacancy(FALSE, None, None, "RUR"),
     hh_vacancy(TRUE, Some(1000), Some(2000), "RUR"),
     hh_vacancy(TRUE, None, Some(1000), "RUR"),
     hh_vacancy(TRUE, Some(1000), Some(2000), "USD")}

SJVacancyKinds ==
    {sj_vacancy(Some(1000), Some(2000), "rub"),
     sj_vacancy(Some(1000), Some(0), "rub"),
     sj_vacancy(Some(0), Some(0), "rub"),
     sj_vacancy(Some(1000), Some(2000), "usd")}

VacancyKinds(prov) == IF prov = "hh" THEN HHVacancyKinds ELSE SJVacancyKinds

\* one vacancy repeated so that the answer takes a second page
BulkDataset(prov, v) == [i \in 1..(per_page(prov) + 1) |-> v]

\* the for loop takes the next language and calls the fetcher, which sets up
\* its parameters, vacancies = [] and page = 0; srv is what the provider
\* holds for the query
StartFetchOn(srv) ==
    /\ pc = "loop"
    /\ lang_idx <= Len(Languages)
    /\ server' = srv
    /\ page' = 0
    /\ vacancies' = <<>>
    /\ requests' = <<>>
    /\ pc' = "request"
    /\ UNCHANGED <<provider, superjob_key, area_text, areas_json, area_id, lang_idx,
                   vacancies_dict, vacancies_found, output, error, sj_contacted,
                   est_vars>>

\* the provider holds any short list of vacancies, or a list longer than a page
StartFetch ==
    /\ pc = "loop"
    /\ \/ \E n \in 0..MaxVacancies :
             \E srv \in [1..n -> VacancyKinds(provider)] : StartFetchOn(srv)
       \/ \E v \in VacancyKinds(provider) : StartFetchOn(BulkDataset(provider, v))

\* the for loop is exhausted: return vacancies
AggregatorReturns ==
    /\ pc = "loop"
    /\ lang_idx > Len(Languages)
    /\ pc' = "print"
    /\ UNCHANGED <<provider, superjob_key, area_text, areas_json, area_id, lang_idx,
                   vacancies_dict, server, page, vacancies, requests, vacancies_found,
                   output, error, sj_contacted, est_vars>>

\* lines 92-95 / 147-150: statistics.mean raises StatisticsError on an empty
\* list.  The fetched list and the fetcher's locals are dead afterwards.
Stats ==
    /\ pc = "stats"
    /\ LET found == vacancies_found[1]
           salaries == Salaries(provider, found)
       IN IF salaries = <<>>
          THEN /\ error' = Some("StatisticsError")
               /\ pc' = "except"
               /\ UNCHANGED <<vacancies_dict, lang_idx>>
          ELSE /\ vacancies_dict' = DictSet(vacancies_dict, Languages[lang_idx],
                                            language_stats(found, salaries))
               /\ lang_idx' = lang_idx + 1
               /\ pc' = "loop"
               /\ error' = error
    /\ vacancies_found' = None
    /\ server' = <<>>
    /\ page' = 0
    /\ vacancies' = <<>>
    /\ requests' = <<>>
    /\ UNCHANGED <<provider, superjob_key, area_text, areas_json, area_id, output,
                   sj_contacted, est_vars>>

\* response.json()['objects'] of GET /towns/: the ids of the towns found
TownResponses == {<<>>, <<4>>, <<4, 14>>}

\* get_sj_area_id on the response body `objects`, called from the SuperJob
\* aggregator
SJAreaOn(objects) ==
    /\ pc = "area" /\ provider = "sj"
    /\ sj_contacted' = TRUE
    /\ IF Len(objects) < 1
       THEN /\ error' = Some("Gorod ne naiden")
            /\ pc' = "except"
            /\ area_id' = area_id
       ELSE /\ area_id' = Some(objects[1])
            /\ pc' = "loop"
            /\ error' = error
    /\ vacancies_dict' = <<>>
    /\ lang_idx' = 1
    /\ UNCHANGED <<provider, superjob_key, area_text, areas_json, server, page,
                   vacancies, requests, vacancies_found, output, est_vars>>

\* the SuperJob aggregator resolves its area
SJArea ==
    /\ pc = "area" /\ provider = "sj"
    /\ \E objects \in TownResponses : SJAreaOn(objects)

\* GET /towns/ answers with a non-success status
SJAreaRequestFails ==
    /\ pc = "area" /\ provider = "sj"
    /\ sj_contacted' = TRUE
    /\ error' = Some("HTTPError")
    /\ pc' = "except"
    /\ vacancies_dict' = <<>>
    /\ UNCHANGED <<provider, superjob_key, area_text, areas_json, area_id, lang_idx,
                   server, page, vacancies, requests, vacancies_found, output,
                   est_vars>>

\* the HeadHunter aggregator resolves its area; GET /areas answers any forest
HHArea ==
    /\ pc = "area" /\ provider = "hh"
    /\ \E n \in 0..MaxNodes :
          \E p \in ParentVectors(n), nm \in [1..n -> AreaNames], d \in [1..n -> 0..MaxId] :
             HHAreaOn(AreaTree(n, p, nm, d))

Title(prov) == IF prov = "hh" THEN "HeadHunter Moscow" ELSE "SuperJob Moscow"

\* the data rows of print_table; no value of the dict is None
TableRows(d) ==
    [i \in 1..Len(d) |-> <<d[i].language, d[i].stats.vacancies_found,
                           d[i].stats.vacancies_processed, d[i].stats.average_salary>>]

\* lines 173 and 178
PrintTable ==
    /\ pc = "print"
    /\ output' = Append(output, [kind |-> "table", title |-> Title(provider),
                                 rows |-> TableRows(vacancies_dict)])
    /\ pc' = IF provider = "hh" THEN "gate" ELSE "done"
    /\ UNCHANGED <<provider, superjob_key, area_text, areas_json, area_id, lang_idx,
                   vacancies_dict, server, page, vacancies, requests, vacancies_found,
                   error, sj_contacted, est_vars>>

\* os.getenv('SUPERJOB_KEY', False)
os_getenv(env, default) == IF env = None THEN default ELSE env

\* faulty variant: `if superjob_key is not False`
KeyIsNotFalse(key) == key # PyFalse

\* `if superjob_key`, for False or a string
KeyTruthy(key) == key # PyFalse /\ key # Some("")

\* lines 175-177
Gate ==
    /\ pc = "gate"
    /\ IF KeyTruthy(os_getenv(superjob_key, PyFalse))
       THEN provider' = "sj" /\ pc' = "area"
       ELSE provider' = provider /\ pc' = "done"
    /\ UNCHANGED <<superjob_key, area_text, areas_json, area_id, lang_idx,
                   vacancies_dict, server, page, vacancies, requests, vacancies_found,
                   output, error, sj_contacted, est_vars>>

\* faulty variant: a handler around each report, so that the run goes on to the
\* SuperJob report after a failed HeadHunter report
ExceptPerReport ==
    /\ pc = "except"
    /\ output' = Append(output, [kind |-> "error", title |-> error[1], rows |-> <<>>])
    /\ pc' = IF provider = "hh" THEN "gate" ELSE "done"
    /\ UNCHANGED <<provider, superjob_key, area_text, areas_json, area_id, lang_idx,
                   vacancies_dict, server, page, vacancies, requests, vacancies_found,
                   error, sj_contacted, est_vars>>

\* lines 179-180
Except ==
    /\ pc = "except"
    /\ output' = Append(output, [kind |-> "error", title |-> error[1], rows |-> <<>>])
    /\ pc' = "done"
    /\ UNCHANGED <<provider, superjob_key, area_text, areas_json, area_id, lang_idx,
                   vacancies_dict, server, page, vacancies, requests, vacancies_found,
                   error, sj_contacted, est_vars>>

\* main after load_dotenv, about to call the HeadHunter aggregator
Init ==
    /\ EstIdle
    /\ pc = "area" /\ provider = "hh"
    /\ superjob_key \in {None, Some(""), Some("key")}
    /\ area_text = "Moskva" /\ areas_json = None /\ area_id = None
    /\ lang_idx = 1 /\ vacancies_dict = <<>> /\ server = <<>> /\ page = 0
    /\ vacancies = <<>> /\ requests = <<>> /\ vacancies_found = None
    /\ output = <<>> /\ error = None /\ sj_contacted = FALSE

Next ==
    \/ HHArea
    \/ HHAreaRequestFails
    \/ SJArea
    \/ SJAreaRequestFails
    \/ StartFetch
    \/ AggregatorReturns
    \/ Request
    \/ RequestFails
    \/ Stats
    \/ PrintTable
    \/ Gate
    \/ Except

Spec == Init /\ [][Next]_vars

----------------------------------------------------------------------------
(* Properties of the run of main *)

Last(seq) == seq[Len(seq)]

TablesPrinted(title) ==
    {i \in 1..Len(output) : output[i].kind = "table" /\ output[i].title = title}

ErrorsPrinted == {i \in 1..Len(output) : output[i].kind = "error"}

\* the current fetch has had a request answered with a non-success status
FailedRequest == \E i \in 1..Len(requests) : ~requests[i].ok

\* C3: a language with no processed vacancy gets a LanguageStats with an
\* absent average, the mean of an empty collection is never computed, and the
\* run goes on with the remaining languages.
C3_NoMeanOfEmpty ==
    /\ error # Some("StatisticsError")
    /\ pc = "stats" => ENABLED (Stats /\ pc' = "loop")

\* C5: once a page request of a fetch has answered with a non-success status,
\* the error is on its way to main's handler, the failed request is the last
\* of the fetch, the fetcher has returned nothing to the aggregator, the dict
\* holds entries for the earlier languages only, and no table of that provider
\* is printed.
C5_FailedFetchAborts ==
    FailedRequest =>
        /\ pc \in {"except", "done"}
        /\ error = Some("HTTPError")
        /\ \A i \in 1..Len(requests) : ~requests[i].ok => i = Len(requests)
        /\ vacancies_found = None
        /\ Len(vacancies_dict) = lang_idx - 1
        /\ \A i \in 1..Len(vacancies_dict) : vacancies_dict[i].language = Languages[i]
        /\ TablesPrinted(Title(provider)) = {}

C5_Witness ==
    /\ pc = "done" /\ provider = "sj" /\ FailedRequest
    /\ Len(requests) = 2 /\ requests[1].ok
    /\ lang_idx = 2 /\ Len(vacancies_dict) = 1

RECURSIVE TenthsOfPresent(_, _)
\* the sum, in tenths, of the estimates of the vacancies that have one
TenthsOfPresent(prov, found) ==
    IF found = <<>> THEN 0
    ELSE (IF predict_rub_salary(prov, Head(found)) = None THEN 0
          ELSE predict_rub_salary(prov, Head(found))[1])
         + TenthsOfPresent(prov, Tail(found))

\* a is the fraction num / den, den > 0, with its fractional part dropped
IsTruncationOf(a, num, den) ==
    IF num >= 0 THEN a * den <= num /\ num < (a + 1) * den
                ELSE (a - 1) * den < num /\ num <= a * den

C7_ProcessedAtMostFound ==
    /\ \A i \in 1..Len(vacancies_dict) :
          vacancies_dict[i].stats.vacancies_processed
             <= vacancies_dict[i].stats.vacancies_found
    /\ \A i \in 1..Len(output) : \A r \in 1..Len(output[i].rows) :
          output[i].kind = "table" => output[i].rows[r][3] <= output[i].rows[r][2]

C7_Witness ==
    /\ provider = "sj" /\ pc = "done" /\ error = None
    /\ \E r \in 1..Len(Last(output).rows) :
          Last(output).rows[r][2] = 2 /\ Last(output).rows[r][3] = 1
    /\ \E r \in 1..Len(Last(output).rows) :
          Last(output).rows[r][2] = SJCount + 1 /\ Last(output).rows[r][3] = SJCount + 1

\* C8: with SUPERJOB_KEY unset or empty no request goes to SuperJob and no
\* "SuperJob Moscow" table is printed; the "HeadHunter Moscow" table is printed
\* from the HeadHunter result before the key is read, whatever the key.
C8_NoKeyNoSuperJob ==
    /\ superjob_key \in {None, Some("")} =>
          /\ ~sj_contacted
          /\ provider = "hh"
          /\ TablesPrinted("SuperJob Moscow") = {}
          /\ (pc = "done" /\ error = None) =>
                output = <<[kind |-> "table", title |-> "HeadHunter Moscow",
                            rows |-> TableRows(vacancies_dict)]>>
    /\ pc = "gate" =>
          output = <<[kind |-> "table", title |-> "HeadHunter Moscow",
                      rows |-> TableRows(vacancies_dict)]>>

C8_Witness ==
    /\ superjob_key = Some("") /\ pc = "done" /\ error = None
    /\ Len(output) = 1 /\ output[1].title = "HeadHunter Moscow"
    /\ Len(output[1].rows) = Len(Languages)

\* C10: an error while the HeadHunter report is generated leaves no table
\* printed and SuperJob never contacted; an error while the SuperJob report is
\* generated leaves the HeadHunter table and no SuperJob table; in both cases
\* exactly one Error line is printed, last, and the run ends normally.
C10_OneHandlerForBothReports ==
    /\ (error # None /\ provider = "hh") =>
          /\ ~sj_contacted
          /\ TablesPrinted("HeadHunter Moscow") = {}
          /\ TablesPrinted("SuperJob Moscow") = {}
    /\ (error # None /\ provider = "sj") =>
          /\ TablesPrinted("HeadHunter Moscow") = {1}
          /\ TablesPrinted("SuperJob Moscow") = {}
    /\ error # None => pc \in {"except", "done"}
    /\ Cardinality(ErrorsPrinted) = IF pc = "done" /\ error # None THEN 1 ELSE 0
    /\ (pc = "done" /\ error # None) =>
          Last(output) = [kind |-> "error", title |-> error[1], rows |-> <<>>]
    /\ pc = "except" => ENABLED Except

C10_Witness ==
    /\ pc = "done" /\ provider = "sj" /\ error = Some("StatisticsError")
    /\ Len(output) = 2
    /\ output[1].title = "HeadHunter Moscow"
    /\ output[2].kind = "error"

====
